---- MODULE Spec2Model ----
(***************************************************************************)
(* Kaspersky DDoS Prevention exporter (kdp-exporter/handler.py).           *)
(* The Collector, its collect pass over the remote SOAP operations and the *)
(* metric families the pass fills.                                         *)
(***************************************************************************)
EXTENDS Integers, Sequences, FiniteSets, TLC

\* ------------------------------------------------------------------ bounds
\* Number of collect passes run on one Collector.
MaxPasses == 2
\* Number of remote responses, over the life of one Collector, that differ
\* from the plain successful response of their operation.
MaxDev == 2
\* Number of times the running thread changes while two passes interleave.
MaxSwitches == 2
\* Number of invocations of handle in one process.
MaxHandles == 3
\* Number of clock steps the signing specification covers.
MaxTick == 10

\* ------------------------------------------------------- program constants
locale_id == 10
AnomalyLimit == 1000
AnomalyOffset == 0

\* Seconds per clock step.
TimeStep == 150

\* The configured KDP_RESOURCE.
resource_name == "site"

\* The configured KDP_CLIENT_ID, KDP_USER_ID and KDP_SECRET_KEY.
kdp_client_id == 12
kdp_user_id == 3
kdp_secret_key == "key"

\* Optional values: Python None, or an attribute that was never assigned.
None == <<>>
Some(x) == <<x>>
Val(o) == o[1]

\* ---------------------------------------------------------- operation names
Ping == "ping"
ApiVersion == "get_api_version"
ResourceList == "client_resource_list"
ParamList == "get_measured_parameter_list"
ParamData == "get_measured_parameter_data"
Classify == "measured_parameters"
ProtocolRatio == "get_protocol_ratio"
GeoRatio == "get_resource_geo_ratio"
NewIpBlocks == "get_resource_new_ip_blocks"
AnomalyList == "get_resource_anomaly_list"
AttackList == "attack_active_list"

\* The remote operations (measured_parameters is local: it calls nothing).
RemoteOps == {Ping, ApiVersion, ResourceList, ParamList, ParamData,
              ProtocolRatio, GeoRatio, NewIpBlocks, AnomalyList, AttackList}

\* The operations whose arguments read self.resource_id.
ScopedOps == {ParamList, ParamData, ProtocolRatio, GeoRatio, NewIpBlocks,
              AnomalyList}

\* Mutant: collect calls the steps in the order of the specification's list.
CollectOrder_AsListed == <<Ping, ApiVersion, ResourceList, ProtocolRatio,
                           GeoRatio, NewIpBlocks, ParamList, ParamData,
                           Classify, AnomalyList, AttackList>>

\* The order in which collect calls the step methods.
CollectOrder == <<Ping, ApiVersion, ResourceList, ParamList, ParamData,
                  Classify, ProtocolRatio, GeoRatio, NewIpBlocks,
                  AnomalyList, AttackList>>

\* ------------------------------------------------------------ metric catalog
\* short_name of a measured parameter -> prefix of its five families, in the
\* order measured_parameters creates them.
KindTable ==
  << <<"Number of IPs",           "kdp_ip_rate">>,
     <<"SYN packets",             "kdp_syn_packets">>,
     <<"SYN rating",              "kdp_syn_rating">>,
     <<"Incoming traffic in bps", "kdp_incoming_traffic_bps">>,
     <<"Incoming traffic in pps", "kdp_incoming_traffic_pps">>,
     <<"Outgoing traffic in bps", "kdp_outgoing_traffic_bps">>,
     <<"Outgoing traffic in pps", "kdp_outgoing_traffic_pps">>,
     <<"Incoming ICMP traffic",   "kdp_incoming_icmp_traffic_pps">>,
     <<"Incoming TCP traffic",    "kdp_incoming_tcp_traffic_pps">>,
     <<"HTTP. Requests",          "kdp_http_hits_rate">> >>

KnownNames == {KindTable[i][1] : i \in 1..Len(KindTable)}

Prefix(short_name) ==
  KindTable[CHOOSE i \in 1..Len(KindTable) : KindTable[i][1] = short_name][2]

\* The five families of one kind, in creation order.
Suffixes == <<"_direction", "_threshold", "_mult1", "_mult2", "">>

KindFamilies(prefix) == [j \in 1..Len(Suffixes) |-> prefix \o Suffixes[j]]

\* The fifty families measured_parameters creates, kind by kind.
ClassifierFamilies ==
  [n \in 1..(Len(KindTable) * Len(Suffixes)) |->
     KindFamilies(KindTable[((n - 1) \div Len(Suffixes)) + 1][2])
       [((n - 1) % Len(Suffixes)) + 1]]

\* The families each step method creates, in creation order.
Families(op) ==
  CASE op = ApiVersion   -> <<"kdp_api_version">>
    [] op = ResourceList -> <<"kdp_client_resource">>
    [] op = GeoRatio     -> <<"kdp_resource_geo_ratio_prc">>
    [] op = NewIpBlocks  -> <<"kdp_resource_new_ip_blocks_count">>
    [] op = AnomalyList  -> <<"kdp_resource_anomaly_max_value",
                              "kdp_resource_anomaly_max_percent">>
    [] op = AttackList   -> <<"kdp_resource_attack_incoming_traffic_bps",
                              "kdp_resource_attack_incoming_traffic_pps",
                              "kdp_resource_attack_http_rate">>
    [] op = Classify     -> ClassifierFamilies
    [] OTHER             -> <<>>

\* Every family name, in the order one pass creates them.
Catalog ==
  Families(ApiVersion) \o Families(ResourceList) \o Families(Classify)
  \o Families(GeoRatio) \o Families(NewIpBlocks) \o Families(AnomalyList)
  \o Families(AttackList)

FamilyNames == {Catalog[i] : i \in 1..Len(Catalog)}

\* --------------------------------------------------------- remote responses
\* A response of the remote service: kind "fault" (the call raises), "empty"
\* (a falsy result: None, 0, an empty list) or "data" with its records.  A
\* record carries in `absent` the names of the fields it lacks; reading such
\* a field raises AttributeError.
Fault == [kind |-> "fault", recs |-> <<>>]
Empty == [kind |-> "empty", recs |-> <<>>]
Data(recs) == [kind |-> "data", recs |-> recs]
\* No call was sent for the operation in this pass.
NoCall == [kind |-> "nocall", recs |-> <<>>]

ApiRec(absent) == [version |-> "1.0", mode |-> "client", absent |-> absent]

ResRec(id, name, absent) ==
  [id |-> id, name |-> name, group |-> "grp", internal_ip |-> "10.0.0.1",
   external_ip |-> "192.0.2.1", redirection_method_name |-> "bgp",
   absent |-> absent]

DefRec(id, short_name, direction, absent) ==
  [id |-> id, short_name |-> short_name, direction |-> direction,
   absent |-> absent]

\* value is optional: None is the remote null.
PointRec(unit_check_id, type, value, absent) ==
  [unit_check_id |-> unit_check_id, type |-> type, value |-> value,
   threshold |-> 50, mult1 |-> 2, mult2 |-> 3, absent |-> absent]

GeoRec(country, value, absent) ==
  [country |-> country, value |-> value, absent |-> absent]

IpRec(new_ip_blocks, absent) ==
  [new_ip_blocks |-> new_ip_blocks, absent |-> absent]

AnomalyRec(short_name, color, absent) ==
  [measured_parameter_short_name |-> short_name, state |-> "active",
   color |-> color, max_point_value |-> 900, max_point_percentage |-> 150,
   absent |-> absent]

AttackRec(attack_id, rid, absent) ==
  [attack_id |-> attack_id, attack_type |-> "syn flood", resource_id |-> rid,
   max_point_value_bps |-> 8000, max_point_value_pps |-> 700,
   max_point_value_rps |-> 60, absent |-> absent]

\* The plain successful response of each operation.
Canon(op) ==
  CASE op = Ping          -> Data(<<1>>)
    [] op = ApiVersion    -> Data(<<ApiRec({})>>)
    [] op = ResourceList  -> Data(<<ResRec(1, resource_name, {})>>)
    [] op = ParamList     -> Data(<<DefRec(5, "SYN packets", 1, {})>>)
    [] op = ParamData     -> Data(<<PointRec(5, 0, Some(12), {}),
                                    PointRec(5, 2, Some(3), {})>>)
    [] op = ProtocolRatio -> Data(<<[timestamp |-> "t0", absent |-> {}]>>)
    [] op = GeoRatio      -> Data(<<GeoRec("RU", 60, {}), GeoRec("US", 40, {})>>)
    [] op = NewIpBlocks   -> Data(<<IpRec(4, {})>>)
    [] op = AnomalyList   -> Data(<<AnomalyRec("SYN packets", 2, {})>>)
    [] op = AttackList    -> Data(<<AttackRec(7, 1, {}), AttackRec(8, 2, {})>>)

\* The other responses the model draws for each operation: the two failures
\* and data that is malformed, repeated, or about another resource.
Alt(op) ==
  {Fault, Empty} \cup
  CASE op = Ping          -> {Data(<<2>>)}
    [] op = ApiVersion    -> {Data(<<ApiRec({"mode"})>>)}
    [] op = ResourceList  ->
         {Data(<<ResRec(2, "other", {})>>),
          Data(<<ResRec(1, resource_name, {}), ResRec(2, resource_name, {})>>),
          Data(<<ResRec(1, resource_name, {}), ResRec(1, resource_name, {})>>),
          Data(<<ResRec(2, resource_name, {}), ResRec(3, "other", {"name"})>>)}
    [] op = ParamList     ->
         {Data(<<DefRec(6, "Unknown kind", 1, {}),
                 DefRec(5, "SYN packets", 1, {})>>),
          Data(<<DefRec(5, "SYN packets", 1, {}), DefRec(5, "SYN packets", 1, {})>>),
          Data(<<DefRec(5, "HTTP. Requests", -1, {}), DefRec(6, "SYN rating", 1, {"id"})>>)}
    [] op = ParamData     ->
         {Data(<<PointRec(5, 0, Some(12), {}), PointRec(5, 0, Some(13), {})>>),
          Data(<<PointRec(5, 1, None, {}), PointRec(6, 0, Some(9), {}),
                 PointRec(5, 1, Some(7), {})>>),
          Data(<<PointRec(5, 1, Some(7), {"mult1"})>>)}
    [] op = ProtocolRatio -> {}
    [] op = GeoRatio      -> {Data(<<GeoRec("RU", 60, {}), GeoRec("US", 40, {"value"})>>)}
    [] op = NewIpBlocks   -> {Data(<<IpRec(4, {}), IpRec(6, {})>>),
                              Data(<<IpRec(4, {}), IpRec(6, {"new_ip_blocks"})>>)}
    [] op = AnomalyList   -> {Data(<<AnomalyRec("SYN packets", 2, {}),
                                     AnomalyRec("SYN rating", 1, {"max_point_percentage"})>>)}
    [] op = AttackList    -> {Data(<<AttackRec(8, 2, {})>>),
                              Data(<<AttackRec(7, 1, {}), AttackRec(9, 1, {"attack_type"})>>)}

\* -------------------------------------------------------------------- state
VARIABLES
  cfgFail,      \* 0, or the statement of __init__'s try block that raised
  pc,           \* "idle", the step collect is about to call, "yield", "raised"
  passNo,       \* number of collect passes started on this Collector
  mode,         \* the remote service during this pass: "up", "faulty", "empty"
  dev,          \* responses so far that were not the plain successful one
  metrics,      \* self.metrics: the families, each [name, pass, samples]
  attr,         \* self.metric_<name>: index in metrics of the family it holds
  resource_id,  \* self.resource_id: None until client_resource_list sets it
  plist,        \* collect's local plist: None, or Some(list)
  pdata,        \* collect's local pdata: None, or Some(list)
  order,        \* the step methods called in this pass, in call order
  calls,        \* the remote operations invoked in this pass, in call order
  errs,         \* the steps that logged an error in this pass
  got,          \* the response each remote operation returned in this pass
  replies,      \* the kinds of all responses received since construction
  yielded,      \* the families the last finished pass yielded
  sent,         \* what each remote call of this pass signed and passed
  now,          \* time(): the wall clock, in seconds
  auths,        \* the last two authenticate calls, with their results
  th,           \* the passes that run in threads of their own, by thread
  sched,        \* the thread that ran last and the thread switches so far
  proc          \* the process: REGISTRY and the invocations of handle

vars == <<cfgFail, pc, passNo, mode, dev, metrics, attr, resource_id, plist,
          pdata, order, calls, errs, got, replies, yielded, sent, now, auths,
          th, sched, proc>>

\* The state that only the clock, authenticate, the threaded passes and
\* handle change.
aux == <<now, auths, th, sched, proc>>

\* ------------------------------------------------------------------ threads
\* The threads that may each run one collect pass on the Collector while the
\* other does.
Threads == {1, 2}

\* A thread that has not called collect: its position, whether it is inside
\* a remote call, collect's locals, the families its responses were added
\* to (by index in self.metrics), and what it yielded.
NewThread == [pc |-> "idle", waiting |-> FALSE, plist |-> None,
              pdata |-> None, added |-> {}, yielded |-> <<>>]

\* ------------------------------------------------------------------ process
\* The collectors prometheus_client registers in REGISTRY when it is
\* imported.
DefaultCollectors == <<"PROCESS_COLLECTOR", "PLATFORM_COLLECTOR",
                       "GC_COLLECTOR">>

\* The process after the module was imported: REGISTRY holds the default
\* collectors and no Collector, handle has not been invoked.  `at` is the
\* statement the running invocation is about to execute, `obj` the Collector
\* it built, `described` the state of the remote service during the pass
\* that register ran on obj, `results` what each invocation returned or
\* raised.
NewProcess ==
  [registry |-> [defaults |-> {DefaultCollectors[i] :
                                 i \in 1..Len(DefaultCollectors)},
                 collectors |-> {},
                 names |-> {}],
   at |-> "idle", obj |-> 0, described |-> "", results |-> <<>>]

\* ----------------------------------------------------------------- __init__
\* The statements of __init__'s try block, in order; any of them may raise,
\* and the except clause logs and returns, leaving the later attributes
\* unassigned.
ConfigSteps == <<"KDP_URL", "KDP_CLIENT_ID", "KDP_USER_ID", "KDP_SECRET_KEY",
                 "KDP_RESOURCE", "Client">>

ConfigFailures == 0..Len(ConfigSteps)

\* self.resource_name is assigned by the fifth statement.
HasResourceName == cfgFail = 0 \/ cfgFail > 5

\* self.client is assigned by the last statement.
HasClient == cfgFail = 0

Init ==
  /\ cfgFail \in ConfigFailures
  /\ pc = "idle"
  /\ passNo = 0
  /\ mode = "up"
  /\ dev = 0
  /\ metrics = <<>>
  /\ attr = [f \in FamilyNames |-> 0]
  /\ resource_id = None
  /\ plist = None
  /\ pdata = None
  /\ order = <<>>
  /\ calls = <<>>
  /\ errs = {}
  /\ got = [op \in RemoteOps |-> NoCall]
  /\ replies = {}
  /\ yielded = <<>>
  /\ sent = [op \in RemoteOps |-> None]
  /\ now = 0
  /\ auths = <<>>
  /\ th = [t \in Threads |-> NewThread]
  /\ sched = [last |-> 0, switches |-> 0]
  /\ proc = NewProcess

\* ------------------------------------------------------------------ helpers
\* str() of a small non-negative integer.
Digits == <<"0", "1", "2", "3", "4", "5", "6", "7", "8", "9">>

RECURSIVE Str(_)
Str(n) == IF n < 10 THEN Digits[n + 1]
          ELSE Str(n \div 10) \o Digits[(n % 10) + 1]

\* GaugeMetricFamily(name, ...) followed by self.metrics.append(family), for
\* each family of the step: the attribute now holds the new family.
CreateFamilies(c, names, k) ==
  [m |-> c.m \o [j \in 1..Len(names) |->
                   [name |-> names[j], pass |-> k, samples |-> <<>>]],
   a |-> [f \in FamilyNames |->
            IF \E j \in 1..Len(names) : names[j] = f
            THEN Len(c.m) + (CHOOSE j \in 1..Len(names) : names[j] = f)
            ELSE c.a[f]]]

\* family.add_metric(labels, value) on the family the attribute holds.
AddMetric(m, a, fam, labels, value) ==
  [m EXCEPT ![a[fam]].samples = Append(@, [labels |-> labels, value |-> value])]

\* The statements of a loop body, flattened: each reads some fields (ok is
\* FALSE when one of them is absent, and the statement raises) and then adds
\* a sample, assigns self.resource_id, or only evaluates a condition.
Has(rec, fields) == fields \cap rec.absent = {}
Add(ok, fam, labels, value) ==
  [ok |-> ok, kind |-> "add", fam |-> fam, labels |-> labels, value |-> value]
SetId(ok, id) ==
  [ok |-> ok, kind |-> "setid", fam |-> "", labels |-> <<>>, value |-> id]
Test(ok) ==
  [ok |-> ok, kind |-> "test", fam |-> "", labels |-> <<>>, value |-> 0]

\* Runs the statements in order until one raises.
RECURSIVE RunEffects(_, _, _)
RunEffects(st, a, effs) ==
  IF effs = <<>> THEN st
  ELSE LET e == Head(effs) IN
       IF ~e.ok THEN [st EXCEPT !.raised = TRUE]
       ELSE RunEffects(
              CASE e.kind = "add" ->
                     [st EXCEPT !.m = AddMetric(st.m, a, e.fam, e.labels, e.value)]
                [] e.kind = "setid" -> [st EXCEPT !.rid = Some(e.value)]
                [] OTHER -> st,
              a, Tail(effs))

\* ------------------------------------------------------------- authenticate
\* The clock advances in steps of TimeStep seconds up to MaxTick steps.
Times == {k * TimeStep : k \in 0..MaxTick}

\* int(round(x / 600, 0)) for x = t seconds: Python rounds to the nearest
\* integer and an exact half to the even neighbour.
RoundTo600(t) ==
  LET q == t \div 600
      r == t % 600
  IN IF r < 300 THEN q
     ELSE IF r > 300 THEN q + 1
     ELSE IF q % 2 = 0 THEN q ELSE q + 1

\* unix_time = int(600 * (int(round(time() / 600, 0))))
unix_time(t) == 600 * RoundTo600(t)

\* arg_list: str() of the arguments, concatenated.  The model writes every
\* scalar argument in its str() form already.
RECURSIVE arg_list(_)
arg_list(args) ==
  IF args = <<>> THEN "" ELSE Head(args) \o arg_list(Tail(args))

\* The message authenticate hashes.
msg(method, args, t) ==
  Str(kdp_client_id) \o Str(kdp_user_id) \o method \o arg_list(args)
  \o kdp_secret_key \o Str(unix_time(t))

\* hashlib.md5(...).hexdigest(), taken as collision free: the digest stands
\* for the message it was computed from.
md5(m) == <<"md5", m>>

\* authenticate(method, *args) at time t: the ClientAuth structure, with the
\* inputs and the time component kept for reference.
authenticate(method, args, t) ==
  [method |-> method, args |-> args, time |-> t,
   unix_time |-> unix_time(t), msg |-> msg(method, args, t),
   client_id |-> kdp_client_id, user_id |-> kdp_user_id,
   hash |-> md5(msg(method, args, t))]

\* start_time and end_time of a step, as formatted by strftime.
start_time == "start_time"
end_time == "end_time"

\* The operations called with an Auth structure (ping is called without).
AuthenticatedOps == RemoteOps \ {Ping}

\* The arguments each step hands to authenticate after the method name.
AuthArgs(op, rid) ==
  CASE op = ApiVersion    -> <<"None">>
    [] op = ResourceList  -> <<Str(kdp_client_id), Str(locale_id), "None">>
    [] op = ProtocolRatio -> <<Str(kdp_client_id), Str(locale_id), Str(rid),
                               start_time, end_time>>
    [] op = GeoRatio      -> <<Str(kdp_client_id), Str(locale_id), Str(rid)>>
    [] op = ParamList     -> <<Str(kdp_client_id), Str(locale_id), Str(rid)>>
    [] op = ParamData     -> <<Str(kdp_client_id), Str(rid), start_time,
                               end_time>>
    [] op = NewIpBlocks   -> <<Str(kdp_client_id), Str(rid), start_time,
                               end_time>>
    [] op = AnomalyList   -> <<Str(kdp_client_id), Str(locale_id), Str(rid),
                               start_time, end_time, Str(AnomalyLimit),
                               Str(AnomalyOffset)>>
    [] op = AttackList    -> <<Str(kdp_client_id), Str(locale_id)>>
    [] OTHER              -> <<>>

\* The arguments each step passes to the remote operation besides Auth.
CallArgs(op, rid) ==
  CASE op = ApiVersion    -> <<>>
    [] op = ResourceList  -> <<Str(kdp_client_id), Str(locale_id)>>
    [] op = ProtocolRatio -> <<Str(kdp_client_id), Str(locale_id), Str(rid),
                               start_time, end_time>>
    [] op = GeoRatio      -> <<Str(kdp_client_id), Str(locale_id), Str(rid)>>
    [] op = ParamList     -> <<Str(kdp_client_id), Str(locale_id), Str(rid)>>
    [] op = ParamData     -> <<Str(kdp_client_id), Str(rid), start_time,
                               end_time>>
    [] op = NewIpBlocks   -> <<Str(kdp_client_id), Str(rid), start_time,
                               end_time>>
    [] op = AnomalyList   -> <<Str(kdp_client_id), Str(locale_id), Str(rid),
                               start_time, end_time, Str(AnomalyLimit),
                               Str(AnomalyOffset)>>
    [] op = AttackList    -> <<Str(kdp_client_id), Str(locale_id)>>
    [] OTHER              -> <<>>

\* The resource id the arguments of op carry: self.resource_id for the
\* resource-scoped operations, none for the others.
ScopeOf(op, rid) == IF op \in ScopedOps THEN rid ELSE None

\* The authenticated operations already invoked in this pass.
Authenticated == {o \in AuthenticatedOps : sent[o] # None}

\* The ClientAuth object an authenticate call for `method` returns: a new
\* object each time, told apart by the pass and its rank among the calls of
\* the pass.
ClientAuth(method) ==
  [method |-> method, pass |-> passNo, serial |-> Cardinality(Authenticated) + 1]

\* Mutant: the ClientAuth of the first authenticated call is kept and passed
\* to the later calls.
PassedAuth_Reused(op, auth) ==
  IF Authenticated = {} THEN auth
  ELSE Val(Val(sent[CHOOSE o \in Authenticated :
                      Val(Val(sent[o]).auth).serial = 1]).auth)

\* `Auth=auth`: the step passes the ClientAuth it has just been returned.
PassedAuth(op, auth) == auth

\* What a step signs and what it sends: the method name and arguments given
\* to authenticate, the operation invoked, the arguments and the ClientAuth
\* passed to it (ping is invoked without one).
Request(op, rid) ==
  LET id == IF op \in ScopedOps THEN Val(rid) ELSE 0
      method == IF op = Ping THEN "" ELSE op
  IN [method |-> method,
      signed |-> AuthArgs(op, id),
      operation |-> op,
      passed |-> CallArgs(op, id),
      rid |-> ScopeOf(op, rid),
      auth |-> IF op = Ping THEN None
               ELSE Some(PassedAuth(op, ClientAuth(method)))]

\* --------------------------------------------------------------- loop bodies
\* Mutant: attack_active_list does not filter by resource.
AttackFilter_All(i, rid) == TRUE

\* `if i.resource_id == self.resource_id:` of attack_active_list.
AttackFilter(i, rid) == rid # None /\ i.resource_id = Val(rid)

\* The body of `for i in req` of each step method, for one record.  (For
\* get_api_version the record is req itself; get_protocol_ratio has no loop.)
LoopBody(op, i, rid) ==
  CASE op = ApiVersion ->
         <<Add(Has(i, {"version", "mode"}), "kdp_api_version",
               <<resource_name, i.version, i.mode>>, 1)>>
    [] op = ResourceList ->
         <<Test(Has(i, {"name"}))>> \o
         (IF i.name = resource_name
          THEN <<SetId(Has(i, {"id"}), i.id),
                 Add(Has(i, {"name", "group", "internal_ip", "external_ip",
                             "redirection_method_name"}),
                     "kdp_client_resource",
                     <<i.name, i.group, i.internal_ip, i.external_ip,
                       i.redirection_method_name>>, 1)>>
          ELSE <<>>)
    [] op = GeoRatio ->
         <<Add(Has(i, {"country", "value"}), "kdp_resource_geo_ratio_prc",
               <<resource_name, i.country>>, i.value)>>
    [] op = NewIpBlocks ->
         <<Add(Has(i, {"new_ip_blocks"}), "kdp_resource_new_ip_blocks_count",
               <<resource_name>>, i.new_ip_blocks)>>
    [] op = AnomalyList ->
         <<Add(Has(i, {"measured_parameter_short_name", "state", "color",
                       "max_point_value"}),
               "kdp_resource_anomaly_max_value",
               <<resource_name, i.measured_parameter_short_name, i.state,
                 Str(i.color)>>, i.max_point_value),
           Add(Has(i, {"measured_parameter_short_name", "state", "color",
                       "max_point_percentage"}),
               "kdp_resource_anomaly_max_percent",
               <<resource_name, i.measured_parameter_short_name, i.state,
                 Str(i.color)>>, i.max_point_percentage)>>
    [] op = AttackList ->
         <<Test(Has(i, {"resource_id"}) /\ rid # None)>> \o
         (IF AttackFilter(i, rid)
          THEN <<Add(Has(i, {"attack_id", "attack_type", "max_point_value_bps"}),
                     "kdp_resource_attack_incoming_traffic_bps",
                     <<resource_name, Str(i.attack_id), i.attack_type>>,
                     i.max_point_value_bps),
                 Add(Has(i, {"attack_id", "attack_type", "max_point_value_pps"}),
                     "kdp_resource_attack_incoming_traffic_pps",
                     <<resource_name, Str(i.attack_id), i.attack_type>>,
                     i.max_point_value_pps),
                 Add(Has(i, {"attack_id", "attack_type", "max_point_value_pps"}),
                     "kdp_resource_attack_http_rate",
                     <<resource_name, Str(i.attack_id), i.attack_type>>,
                     i.max_point_value_pps)>>
          ELSE <<>>)
    [] OTHER -> <<>>

RECURSIVE LoopEffects(_, _, _)
LoopEffects(op, req, rid) ==
  IF req = <<>> THEN <<>>
  ELSE LoopBody(op, Head(req), rid) \o LoopEffects(op, Tail(req), rid)

\* Mutant: the two branches of dtype are exchanged.
DType_Swapped(type) ==
  IF type = 0 THEN "clean" ELSE IF type = 2 THEN "dirty" ELSE "N/A"

\* dtype of a data point.
DType(type) == IF type = 0 THEN "dirty" ELSE IF type = 2 THEN "clean" ELSE "N/A"

\* Mutant: the test for a null value is missing.
HasValue_Always(d) == TRUE

\* `d.value is not None`
HasValue(d) == d.value # None

\* Mutant: an unrecognized short_name is rejected with an exception.
ElseBranch_Raises(l, d) == <<Test(FALSE)>>

\* `else: pass` at the end of the chain over l.short_name.
ElseBranch(l, d) == <<>>

\* The body of measured_parameters' inner loop for definition l and point d.
\* (The value family's sample carries d.value as the model writes it.)
PairBody(l, d) ==
  LET match == l.id = d.unit_check_id
      fams == KindFamilies(Prefix(l.short_name))
      labels == <<resource_name, DType(d.type)>>
  IN <<Test(Has(l, {"id"}) /\ Has(d, {"unit_check_id"})
            /\ (match => Has(d, {"value"})))>> \o
     (IF match /\ HasValue(d)
      THEN <<Test(Has(d, {"type"}) /\ Has(l, {"short_name"}))>> \o
           (IF l.short_name \in KnownNames
            THEN <<Add(Has(l, {"direction"}), fams[1], labels, l.direction),
                   Add(Has(d, {"threshold"}), fams[2], labels, d.threshold),
                   Add(Has(d, {"mult1"}), fams[3], labels, d.mult1),
                   Add(Has(d, {"mult2"}), fams[4], labels, d.mult2),
                   Add(Has(d, {"value"}), fams[5], labels, d.value)>>
            ELSE ElseBranch(l, d))
      ELSE <<>>)

RECURSIVE InnerEffects(_, _)
InnerEffects(l, param_data) ==
  IF param_data = <<>> THEN <<>>
  ELSE PairBody(l, Head(param_data)) \o InnerEffects(l, Tail(param_data))

RECURSIVE ClassifierEffects(_, _)
ClassifierEffects(param_list, param_data) ==
  IF param_list = <<>> THEN <<>>
  ELSE InnerEffects(Head(param_list), param_data)
       \o ClassifierEffects(Tail(param_list), param_data)

\* -------------------------------------------------------------- step methods
\* collect calls the step methods in CollectOrder, then yields.
NextStep(op) ==
  LET k == CHOOSE j \in 1..Len(CollectOrder) : CollectOrder[j] = op
  IN IF k < Len(CollectOrder) THEN CollectOrder[k + 1] ELSE "yield"

\* Mutant: the `return` after a failed ping is not commented out.
AfterPing_Returns(result) == IF result THEN NextStep(Ping) ELSE "idle"

\* `if self.ping() == False:` only warns: collect goes on either way.
AfterPing(result) == NextStep(Ping)

\* Mutant: the exception of a failed step leaves the step method.
OnException_Propagates(op) == "raised"

\* Mutant: a failed step is tried again.
OnException_Retries(op) == op

\* `except Exception as e:` of a step method logs the error and the method
\* returns normally, so collect goes on to the next step.
OnException(op) == NextStep(op)

\* Mutant: the `assert req` is missing, an empty result counts as success.
Failed_FaultOnly(r) == r.kind = "fault"

\* The remote call raised, or `assert req` failed on a falsy result.
Failed(r) == r.kind \in {"fault", "empty"}

\* The arguments of the call can be evaluated and authenticate can build the
\* ClientAuth structure: self.resource_id and self.client exist.
CanCall(op) == HasClient /\ (op \in ScopedOps => resource_id # None)

\* What the remote service may answer in this pass.
Replies(op) ==
  CASE mode = "faulty" -> {Fault}
    [] mode = "empty"  -> {Empty}
    [] OTHER -> {Canon(op)} \cup (IF dev < MaxDev THEN Alt(op) ELSE {})

\* self.client.service.<op>(...) returned r (or was never reached: NoCall).
Receive(op, r) ==
  IF r = NoCall
  THEN UNCHANGED <<got, calls, replies, dev, sent>>
  ELSE /\ got' = [got EXCEPT ![op] = r]
       /\ sent' = [sent EXCEPT ![op] = Some(Request(op, resource_id))]
       /\ calls' = Append(calls, op)
       /\ replies' = replies \cup {r.kind}
       /\ dev' = IF mode = "up" /\ r # Canon(op) THEN dev + 1 ELSE dev

\* Mutant: the families are created inside the try block, after the call, so
\* a failed step leaves none behind.
TryBlock_FamiliesInside(op, c, r) ==
  IF r = NoCall \/ r.kind \in {"fault", "empty"}
  THEN [m |-> SubSeq(c.m, 1, Len(c.m) - Len(Families(op))),
        rid |-> resource_id, raised |-> TRUE]
  ELSE RunEffects([m |-> c.m, rid |-> resource_id, raised |-> FALSE], c.a,
                  LoopEffects(op, r.recs, resource_id))

\* Mutant: a failed step reports a default sample of 0 in its first family.
TryBlock_DefaultSample(op, c, r) ==
  IF r = NoCall \/ r.kind \in {"fault", "empty"}
  THEN [m |-> IF Families(op) = <<>> THEN c.m
              ELSE AddMetric(c.m, c.a, Families(op)[1], <<resource_name>>, 0),
        rid |-> resource_id, raised |-> TRUE]
  ELSE RunEffects([m |-> c.m, rid |-> resource_id, raised |-> FALSE], c.a,
                  LoopEffects(op, r.recs, resource_id))

\* The try block of a step method after its families c were created.
TryBlock(op, c, r) ==
  IF r = NoCall \/ Failed(r)
  THEN [m |-> c.m, rid |-> resource_id, raised |-> TRUE]
  ELSE RunEffects([m |-> c.m, rid |-> resource_id, raised |-> FALSE], c.a,
                  LoopEffects(op, r.recs, resource_id))

\* A step method that creates its families, calls its operation and maps the
\* records to samples.  Its first statement logs self.resource_name outside
\* the try block.
Step(op) ==
  /\ pc = op
  /\ order' = Append(order, op)
  /\ IF ~HasResourceName
     THEN /\ pc' = "raised"
          /\ UNCHANGED <<metrics, attr, resource_id, errs, got, calls,
                         replies, dev, sent>>
     ELSE LET c == CreateFamilies([m |-> metrics, a |-> attr], Families(op),
                                  passNo)
          IN \E r \in (IF CanCall(op) THEN Replies(op) ELSE {NoCall}) :
               LET st == TryBlock(op, c, r) IN
               /\ metrics' = st.m
               /\ attr' = c.a
               /\ resource_id' = st.rid
               /\ errs' = IF st.raised THEN errs \cup {op} ELSE errs
               /\ Receive(op, r)
               /\ pc' = IF st.raised THEN OnException(op) ELSE NextStep(op)
  /\ UNCHANGED <<cfgFail, passNo, mode, plist, pdata, yielded>>
  /\ UNCHANGED aux

\* A step method that calls its operation and returns the result, or None
\* when the try block raised.
Fetch(op) ==
  /\ pc = op
  /\ order' = Append(order, op)
  /\ IF ~HasResourceName
     THEN /\ pc' = "raised"
          /\ UNCHANGED <<errs, got, calls, replies, dev, sent, plist, pdata>>
     ELSE \E r \in (IF CanCall(op) THEN Replies(op) ELSE {NoCall}) :
            LET raised == r = NoCall \/ Failed(r)
                ret == IF raised THEN None ELSE Some(r.recs)
            IN /\ errs' = IF raised THEN errs \cup {op} ELSE errs
               /\ Receive(op, r)
               /\ plist' = IF op = ParamList THEN ret ELSE plist
               /\ pdata' = IF op = ParamData THEN ret ELSE pdata
               /\ pc' = IF raised THEN OnException(op) ELSE NextStep(op)
  /\ UNCHANGED <<cfgFail, passNo, mode, metrics, attr, resource_id, yielded>>
  /\ UNCHANGED aux

\* collect is called (by the registry): a new pass starts.
collect ==
  /\ pc = "idle"
  /\ passNo < MaxPasses
  /\ passNo' = passNo + 1
  /\ mode' \in {"up", "faulty", "empty"}
  /\ pc' = CollectOrder[1]
  /\ plist' = None
  /\ pdata' = None
  /\ order' = <<>>
  /\ calls' = <<>>
  /\ errs' = {}
  /\ got' = [op \in RemoteOps |-> NoCall]
  /\ yielded' = <<>>
  /\ sent' = [op \in RemoteOps |-> None]
  /\ UNCHANGED <<cfgFail, dev, metrics, attr, resource_id, replies>>
  /\ UNCHANGED aux

ping ==
  /\ pc = Ping
  /\ order' = Append(order, Ping)
  /\ \E r \in (IF HasClient THEN Replies(Ping) ELSE {NoCall}) :
       LET result == r.kind = "data" /\ r.recs[1] = 1 IN
       /\ errs' = IF result THEN errs ELSE errs \cup {Ping}
       /\ Receive(Ping, r)
       /\ pc' = AfterPing(result)
  /\ UNCHANGED <<cfgFail, passNo, mode, metrics, attr, resource_id, plist,
                 pdata, yielded>>
  /\ UNCHANGED aux

\* The try block of measured_parameters(param_list, param_data) after its
\* families c were created.
ClassifierTry(c, param_list, param_data) ==
  LET \* `for l in None`, or `for d in None` for the first l
      typeError == param_list = None
                   \/ (Val(param_list) # <<>> /\ param_data = None)
  IN IF typeError
     THEN [m |-> c.m, rid |-> resource_id, raised |-> TRUE]
     ELSE RunEffects([m |-> c.m, rid |-> resource_id, raised |-> FALSE],
                     c.a, ClassifierEffects(Val(param_list), Val(param_data)))

get_api_version == Step(ApiVersion)

client_resource_list == Step(ResourceList)

get_measured_parameter_list == Fetch(ParamList)

get_measured_parameter_data == Fetch(ParamData)

measured_parameters ==
  /\ pc = Classify
  /\ order' = Append(order, Classify)
  /\ IF ~HasResourceName
     THEN /\ pc' = "raised"
          /\ UNCHANGED <<metrics, attr, errs>>
     ELSE LET c == CreateFamilies([m |-> metrics, a |-> attr],
                                  Families(Classify), passNo)
              st == ClassifierTry(c, plist, pdata)
          IN /\ metrics' = st.m
             /\ attr' = c.a
             /\ errs' = IF st.raised THEN errs \cup {Classify} ELSE errs
             /\ pc' = IF st.raised THEN OnException(Classify)
                      ELSE NextStep(Classify)
  /\ UNCHANGED <<cfgFail, passNo, mode, dev, resource_id, plist, pdata, calls,
                 got, replies, yielded, sent>>
  /\ UNCHANGED aux

get_protocol_ratio == Step(ProtocolRatio)

get_resource_geo_ratio == Step(GeoRatio)

get_resource_new_ip_blocks == Step(NewIpBlocks)

get_resource_anomaly_list == Step(AnomalyList)

attack_active_list == Step(AttackList)

\* `for m in self.metrics: yield m`
yield_metrics ==
  /\ pc = "yield"
  /\ yielded' = metrics
  /\ pc' = "idle"
  /\ UNCHANGED <<cfgFail, passNo, mode, dev, metrics, attr, resource_id, plist,
                 pdata, order, calls, errs, got, replies, sent>>
  /\ UNCHANGED aux

Next ==
  \/ collect
  \/ ping
  \/ get_api_version
  \/ client_resource_list
  \/ get_measured_parameter_list
  \/ get_measured_parameter_data
  \/ measured_parameters
  \/ get_protocol_ratio
  \/ get_resource_geo_ratio
  \/ get_resource_new_ip_blocks
  \/ get_resource_anomaly_list
  \/ attack_active_list
  \/ yield_metrics

Spec == Init /\ [][Next]_vars

\* ------------------------------------------------- signing, specification
\* The resource ids the signed calls are made for.
ResourceIds == {1, 2}

\* Time passes.
tick ==
  /\ \E t \in Times : t > now /\ now' = t
  /\ UNCHANGED <<cfgFail, pc, passNo, mode, dev, metrics, attr, resource_id,
                 plist, pdata, order, calls, errs, got, replies, yielded,
                 sent, auths, th, sched, proc>>

\* A step calls self.authenticate with its method name and arguments.
call_authenticate ==
  /\ \E op \in AuthenticatedOps, rid \in ResourceIds :
       LET a == authenticate(op, AuthArgs(op, rid), now)
       IN auths' = IF auths = <<>> THEN <<a>> ELSE <<auths[Len(auths)], a>>
  /\ UNCHANGED <<cfgFail, pc, passNo, mode, dev, metrics, attr, resource_id,
                 plist, pdata, order, calls, errs, got, replies, yielded,
                 sent, now, th, sched, proc>>

InitAuth == Init /\ cfgFail = 0

NextAuth == tick \/ call_authenticate

SpecAuth == InitAuth /\ [][NextAuth]_vars

\* --------------------------------------- interleaved passes, specification
\* Two threads each run one collect pass on the same Collector.  A thread
\* runs without interruption from the return of one remote call to the start
\* of the next; while it waits for the remote service the other thread may
\* run.
Base == <<cfgFail, pc, passNo, mode, dev, plist, pdata, order, calls, errs,
          got, replies, yielded, sent, now, auths, proc>>

\* The families whose samples grew between two values of self.metrics.
Grown(old, new) ==
  {i \in 1..Len(old) : Len(new[i].samples) > Len(old[i].samples)}

\* Thread t is scheduled: it ran last, or the running thread changes.
Run(t) ==
  /\ sched.last \in {0, t} \/ sched.switches < MaxSwitches
  /\ sched' = [last |-> t,
               switches |-> IF sched.last \in {0, t} THEN sched.switches
                            ELSE sched.switches + 1]

\* Thread t calls collect.
thread_collect(t) ==
  /\ Run(t)
  /\ th[t].pc = "idle"
  /\ th' = [th EXCEPT ![t].pc = CollectOrder[1]]
  /\ UNCHANGED <<metrics, attr, resource_id>>
  /\ UNCHANGED Base

\* Thread t enters its next step method: the method creates its families
\* and issues its remote call, or raises before the call; the classifier,
\* which calls nothing, runs to its end.
thread_enter(t) ==
  LET op == th[t].pc
      c == CreateFamilies([m |-> metrics, a |-> attr], Families(op), t)
  IN /\ Run(t)
     /\ \E j \in 1..Len(CollectOrder) : CollectOrder[j] = op
     /\ ~th[t].waiting
     /\ attr' = c.a
     /\ IF op = Classify
        THEN LET st == ClassifierTry(c, th[t].plist, th[t].pdata)
             IN /\ metrics' = st.m
                /\ th' = [th EXCEPT
                            ![t].added = @ \cup Grown(c.m, st.m),
                            ![t].pc = IF st.raised THEN OnException(op)
                                      ELSE NextStep(op)]
        ELSE /\ metrics' = c.m
             /\ th' = IF CanCall(op)
                      THEN [th EXCEPT ![t].waiting = TRUE]
                      ELSE [th EXCEPT ![t].pc = OnException(op)]
     /\ UNCHANGED resource_id
     /\ UNCHANGED Base

\* The remote call of thread t returns, with the plain successful response of
\* its operation, and the step method runs to its end.
thread_return(t) ==
  LET op == th[t].pc
  IN /\ Run(t)
     /\ th[t].waiting
     /\ \E r \in {Canon(op)} :
          LET st == TryBlock(op, [m |-> metrics, a |-> attr], r)
              raised == IF op = Ping THEN FALSE ELSE st.raised
              ret == IF Failed(r) THEN None ELSE Some(r.recs)
          IN /\ metrics' = st.m
             /\ resource_id' = st.rid
             /\ th' = [th EXCEPT
                         ![t].waiting = FALSE,
                         ![t].added = @ \cup Grown(metrics, st.m),
                         ![t].plist = IF op = ParamList THEN ret ELSE @,
                         ![t].pdata = IF op = ParamData THEN ret ELSE @,
                         ![t].pc = IF op = Ping
                                   THEN AfterPing(r = Canon(Ping))
                                   ELSE IF raised THEN OnException(op)
                                   ELSE NextStep(op)]
     /\ UNCHANGED attr
     /\ UNCHANGED Base

\* `for m in self.metrics: yield m` in thread t.
thread_yield(t) ==
  /\ Run(t)
  /\ th[t].pc = "yield"
  /\ th' = [th EXCEPT ![t].yielded = metrics, ![t].pc = "done"]
  /\ UNCHANGED <<metrics, attr, resource_id>>
  /\ UNCHANGED Base

InitThreads == Init /\ cfgFail = 0

NextThreads ==
  \E t \in Threads :
    \/ thread_collect(t)
    \/ thread_enter(t)
    \/ thread_return(t)
    \/ thread_yield(t)

SpecThreads == InitThreads /\ [][NextThreads]_vars

\* ------------------------------------------------- handle, specification
\* The state handle does not change in this specification: the passes that
\* REGISTRY runs on the Collector are taken by their outcome only.
Passes == <<cfgFail, pc, passNo, mode, dev, metrics, attr, resource_id, plist,
            pdata, order, calls, errs, got, replies, yielded, sent, now,
            auths, th, sched>>

\* handle raises: the invocation ends with the exception.
Raise(error) ==
  [proc EXCEPT !.at = "idle",
               !.results = Append(@, [kind |-> "raised", error |-> error,
                                      collectors |-> {}, passes |-> <<>>])]

\* handle(req) is invoked and builds its Collector; __init__ never raises.
handle ==
  /\ proc.at = "idle"
  /\ Len(proc.results) < MaxHandles
  /\ proc' = [proc EXCEPT !.at = "register", !.obj = Len(proc.results) + 1]
  /\ UNCHANGED Passes

\* REGISTRY.register(obj): the registry runs a collect pass on obj, with the
\* remote service up, faulty or answering nothing, to learn its family names, refuses a name it already holds with ValueError, and
\* otherwise records the collector under its names.
register ==
  /\ proc.at = "register"
  /\ \E m \in {"up", "faulty", "empty"} :
       proc' =
         IF ~HasResourceName THEN Raise("AttributeError")
         ELSE IF FamilyNames \cap proc.registry.names # {}
         THEN Raise("ValueError")
         ELSE [proc EXCEPT !.registry.collectors = @ \cup {proc.obj},
                           !.registry.names = @ \cup FamilyNames,
                           !.described = m,
                           !.at = DefaultCollectors[1]]
  /\ UNCHANGED Passes

\* REGISTRY.unregister(<default collector>): KeyError when the collector is
\* not registered.
unregister ==
  /\ \E k \in 1..Len(DefaultCollectors) :
       /\ proc.at = DefaultCollectors[k]
       /\ proc' =
            IF DefaultCollectors[k] \notin proc.registry.defaults
            THEN Raise("KeyError")
            ELSE [proc EXCEPT
                    !.registry.defaults = @ \ {DefaultCollectors[k]},
                    !.at = IF k < Len(DefaultCollectors)
                           THEN DefaultCollectors[k + 1] ELSE "generate"]
  /\ UNCHANGED Passes

\* return obj.generate_latest_scrape(): a second collect pass on the
\* registered Collector, rendered as text.  The pass yields all of
\* self.metrics, so the text shows the families of both passes of obj.
generate_latest_scrape ==
  /\ proc.at = "generate"
  /\ \E m \in {"up", "faulty", "empty"} :
       proc' = [proc EXCEPT
                  !.at = "idle",
                  !.results = Append(@, [kind |-> "text", error |-> "",
                                         collectors |-> proc.registry.collectors,
                                         passes |-> <<proc.described, m>>])]
  /\ UNCHANGED Passes

NextHandle == handle \/ register \/ unregister \/ generate_latest_scrape

SpecHandle == Init /\ [][NextHandle]_vars

\* ======================================================== checked properties
\* The step method op has been called in the current pass.
Ran(op) == \E i \in 1..Len(order) : order[i] = op

\* No element occurs twice in the sequence.
NoRepeat(seq) == \A i, j \in 1..Len(seq) : i # j => seq[i] # seq[j]

\* The current pass ran to its end: collect is yielding or has yielded.
PassOver == passNo >= 1 /\ pc \in {"yield", "idle"}

\* The samples of the family `name` created by the current pass.
Samples(name) ==
  LET S == {i \in 1..Len(metrics) :
              metrics[i].name = name /\ metrics[i].pass = passNo}
  IN IF S = {} THEN <<>> ELSE metrics[CHOOSE i \in S : TRUE].samples

\* The current pass created the family `name`.
Created(name) ==
  \E i \in 1..Len(metrics) : metrics[i].name = name /\ metrics[i].pass = passNo

\* The response is data in which no record lacks a field.
WellFormed(r) ==
  r.kind = "data" /\ \A i \in 1..Len(r.recs) : r.recs[i].absent = {}

\* Number of records of the sequence that satisfy Keep.
Count(recs, Keep(_)) == Cardinality({i \in 1..Len(recs) : Keep(recs[i])})

\* The number of samples a step's response calls for in each of its
\* families: one per record, for the resource list one per record named
\* resource_name, for the attack list one per record of the resolved
\* resource.
Wanted(op) ==
  LET recs == got[op].recs
      Each(i) == TRUE
      Named(i) == i.name = resource_name
      Own(i) == resource_id # None /\ i.resource_id = Val(resource_id)
  IN CASE op = ResourceList -> Count(recs, Named)
       [] op = AttackList   -> Count(recs, Own)
       [] OTHER             -> Count(recs, Each)

\* The number of (definition, data point) pairs of this pass's responses that
\* join on the id, carry a value and belong to the kind short_name.
Joined(short_name) ==
  LET L == got[ParamList].recs
      D == got[ParamData].recs
  IN Cardinality({p \in (1..Len(L)) \X (1..Len(D)) :
                    /\ L[p[1]].short_name = short_name
                    /\ L[p[1]].id = D[p[2]].unit_check_id
                    /\ D[p[2]].value # None})

FamilySteps == {ApiVersion, ResourceList, GeoRatio, NewIpBlocks, AnomalyList,
                AttackList}

Position(op) == CHOOSE j \in 1..11 :
  <<"ping", "get_api_version", "client_resource_list",
    "get_measured_parameter_list", "get_measured_parameter_data",
    "measured_parameters", "get_protocol_ratio", "get_resource_geo_ratio",
    "get_resource_new_ip_blocks", "get_resource_anomaly_list",
    "attack_active_list">>[j] = op

AllSteps == {"ping", "get_api_version", "client_resource_list",
             "get_measured_parameter_list", "get_measured_parameter_data",
             "measured_parameters", "get_protocol_ratio",
             "get_resource_geo_ratio", "get_resource_new_ip_blocks",
             "get_resource_anomaly_list", "attack_active_list"}

\* C1: whichever remote call of a pass fails, by a raised fault or by an empty
\* result, collect does not raise, every later step still runs before the
\* pass ends, and every later step whose own call returned well-formed data
\* has added the samples that data calls for.
C1_FaultIsolation ==
  \A n \in RemoteOps :
    got[n].kind \in {"fault", "empty"} =>
      /\ pc # "raised"
      /\ PassOver => \A s \in AllSteps : Position(s) > Position(n) => Ran(s)
      /\ \A s \in FamilySteps :
           (Position(s) > Position(n) /\ Ran(s) /\ WellFormed(got[s])) =>
             \A j \in 1..Len(Families(s)) :
               Len(Samples(Families(s)[j])) = Wanted(s)
      /\ (Position(ParamList) > Position(n) /\ Ran(Classify)
          /\ WellFormed(got[ParamList]) /\ WellFormed(got[ParamData])) =>
           \A k \in 1..Len(KindTable), j \in 1..Len(Suffixes) :
             Len(Samples(KindTable[k][2] \o Suffixes[j])) = Joined(KindTable[k][1])

\* C1 witness: the geo-ratio call raised a fault and the pass ended with the
\* new-IP-block, anomaly and attack samples present.
C1_Witness ==
  /\ PassOver
  /\ got[GeoRatio].kind = "fault"
  /\ Samples("kdp_resource_geo_ratio_prc") = <<>>
  /\ Len(Samples("kdp_resource_new_ip_blocks_count")) = 1
  /\ Len(Samples("kdp_resource_anomaly_max_value")) = 1
  /\ Len(Samples("kdp_resource_attack_incoming_traffic_bps")) = 1

\* The order of the steps as written in the specification's scrape sequence.
SpecOrder == <<"ping", "get_api_version", "client_resource_list",
               "get_protocol_ratio", "get_resource_geo_ratio",
               "get_resource_new_ip_blocks", "get_measured_parameter_list",
               "get_measured_parameter_data", "measured_parameters",
               "get_resource_anomaly_list", "attack_active_list">>

\* The order of the calls in collect's body.
CodeOrder == <<"ping", "get_api_version", "client_resource_list",
               "get_measured_parameter_list", "get_measured_parameter_data",
               "measured_parameters", "get_protocol_ratio",
               "get_resource_geo_ratio", "get_resource_new_ip_blocks",
               "get_resource_anomaly_list", "attack_active_list">>

IsPrefix(p, q) == Len(p) <= Len(q) /\ \A i \in 1..Len(p) : p[i] = q[i]

\* C2 as stated: a pass that ran to its end called the steps in the order
\* ping, API version, resource list, protocol ratio, geo ratio, new-IP-blocks,
\* measured-parameter list, data and classifier, anomaly list, attack list.
C2_SpecOrderClaim == PassOver => order = SpecOrder

\* C2 amended: the steps of a pass are called in the order ping, API version,
\* resource list, measured-parameter list, measured-parameter data,
\* classifier, protocol ratio, geo ratio, new-IP-blocks, anomaly list, attack
\* list: the measured-parameter steps come before protocol ratio, geo ratio
\* and new-IP-blocks.
C2_CodeOrder ==
  /\ IsPrefix(order, CodeOrder)
  /\ PassOver => order = CodeOrder

\* C2 witness: a pass ended with the classifier called before the geo ratio.
C2_Witness ==
  /\ PassOver
  /\ Len(order) = 11
  /\ order[6] = Classify
  /\ order[8] = GeoRatio

\* The availability check failed: the remote ping raised, returned a falsy
\* result, or returned a value other than 1.
PingFailed ==
  \/ got[Ping].kind \in {"fault", "empty"}
  \/ got[Ping].kind = "data" /\ got[Ping].recs[1] # 1

\* C3: a failed availability check never aborts the pass: collect neither
\* raises nor returns early, and when the pass is over every step was called.
C3_PingFailureContinues ==
  PingFailed =>
    /\ pc # "raised"
    /\ pc \in {"yield", "idle"} => \A s \in AllSteps : Ran(s)

\* C3 witness: ping returned a value other than 1 and the pass ended after
\* the attack list step, with samples of the later steps present.
C3_Witness ==
  /\ PassOver
  /\ got[Ping].kind = "data" /\ got[Ping].recs[1] = 2
  /\ Ran(AttackList)
  /\ Len(Samples("kdp_api_version")) = 1

\* C4: in a pass no step method is called twice and no remote operation is
\* invoked twice; a pass that has invoked a remote operation never raises, and
\* a pass that is over has called every step method exactly once.
C4_EachStepOnce ==
  /\ NoRepeat(order)
  /\ NoRepeat(calls)
  /\ calls # <<>> => pc # "raised"
  /\ PassOver => /\ Len(order) = 11
                 /\ \A s \in AllSteps : Ran(s)

\* C4 witness: a pass ended in which some calls failed and others succeeded.
C4_Witness ==
  /\ PassOver
  /\ Len(order) = 11
  /\ got[ApiVersion].kind = "fault"
  /\ got[NewIpBlocks].kind = "empty"
  /\ got[AnomalyList].kind = "data"
  /\ Len(calls) = 10

\* C5: a remote operation that returned an empty result is handled as one
\* that raised a fault: the step logs a failure, its families get no sample,
\* and the measured-parameter list and data steps return None, so the
\* classifier is handed no data.
C5_EmptyIsFailure ==
  \A op \in RemoteOps :
    (Ran(op) /\ got[op].kind \in {"empty", "fault"}) =>
      /\ op \in errs
      /\ \A j \in 1..Len(Families(op)) : Samples(Families(op)[j]) = <<>>
      /\ op = ParamList => plist = None
      /\ op = ParamData => pdata = None
      /\ (op \in {ParamList, ParamData} /\ Ran(Classify)) =>
           \A j \in 1..Len(Families(Classify)) :
             Samples(Families(Classify)[j]) = <<>>

\* C5 witness: the measured-parameter list call returned an empty result, the
\* data call succeeded, and the classifier ran on no definitions.
C5_Witness ==
  /\ PassOver
  /\ got[ParamList].kind = "empty"
  /\ got[ParamData].kind = "data"
  /\ plist = None
  /\ pdata # None
  /\ Classify \in errs

\* C6 as stated: a step that failed contributes no data: none of the families
\* it created in this pass holds a sample.
C6_FailedStepAddsNothing ==
  \A op \in FamilySteps \cup {Classify} :
    op \in errs =>
      \A j \in 1..Len(Families(op)) : Samples(Families(op)[j]) = <<>>

\* C7 as stated: when __init__ could not load the configuration or build the
\* SOAP client, no step of the sequence is attempted and nothing is yielded.
C7_ConfigErrorIsFatal ==
  cfgFail # 0 => (order = <<>> /\ yielded = <<>>)

\* C8: when every remote call made since the Collector was built returned an
\* empty result, collect does not raise, and the families the pass yields
\* are all of the catalog's 59 and hold no sample.
C8_EmptyScrape ==
  replies = {"empty"} =>
    /\ pc # "raised"
    /\ (pc = "idle" /\ passNo >= 1) =>
         /\ Cardinality({yielded[i].name : i \in 1..Len(yielded)}) = 59
         /\ \A i \in 1..Len(yielded) : yielded[i].samples = <<>>

\* C8 witness: a pass in which the calls returned empty results has yielded.
C8_Witness ==
  /\ replies = {"empty"}
  /\ pc = "idle"
  /\ Len(calls) >= 4
  /\ Len(yielded) >= 59

\* C9 as stated: no family holds two samples with the same label tuple.
C9_NoDuplicateSeries ==
  \A f \in 1..Len(metrics) :
    \A i, j \in 1..Len(metrics[f].samples) :
      i # j => metrics[f].samples[i].labels # metrics[f].samples[j].labels

\* C10 as stated: the families a pass yields are those it created itself.
C10_YieldsOwnFamilies ==
  (pc = "idle" /\ passNo >= 1) =>
    \A i \in 1..Len(yielded) : yielded[i].pass = passNo

\* C12 as stated: two authenticate calls with the same method and arguments
\* made at two times of the same 600-second bucket (same floor(t / 600))
\* produce the same signature, and made 600 seconds apart they carry
\* different time components and sign different messages.
C12_BucketDeterminism ==
  \A i, j \in 1..Len(auths) :
    (auths[i].method = auths[j].method /\ auths[i].args = auths[j].args) =>
      /\ (auths[i].time \div 600 = auths[j].time \div 600) =>
           auths[i].hash = auths[j].hash
      /\ (auths[j].time = auths[i].time + 600) =>
           /\ auths[i].unix_time # auths[j].unix_time
           /\ auths[i].msg # auths[j].msg

\* C13 as stated: the time component of a signed message is the time of the
\* call rounded down to a multiple of 600, and is never later than the call.
C13_RoundedDown ==
  \A i \in 1..Len(auths) :
    /\ auths[i].unix_time = 600 * (auths[i].time \div 600)
    /\ auths[i].unix_time <= auths[i].time

\* C14 as stated: for every authenticated remote call, the arguments given
\* to the signer are the arguments passed to the operation, in the same
\* order, and the method name signed is the operation invoked.
C14_SignedArgsAreCallArgs ==
  \A op \in AuthenticatedOps :
    sent[op] # None =>
      /\ Val(sent[op]).method = Val(sent[op]).operation
      /\ Val(sent[op]).signed = Val(sent[op]).passed

\* C11 as stated: when two passes on one Collector interleave, every sample
\* a pass derives from its responses is added to a family that pass created,
\* and a pass yields only the families it created.
C11_IsolatedContainers ==
  \A t \in Threads :
    /\ \A i \in th[t].added : metrics[i].pass = t
    /\ \A i \in 1..Len(th[t].yielded) : th[t].yielded[i].pass = t

\* The positions, in the resource-list response of this pass, of the records
\* named resource_name.
Matches ==
  {i \in 1..Len(got[ResourceList].recs) :
     got[ResourceList].recs[i].name = resource_name}

\* The samples the current pass holds in the three attack families.
AttackSamples ==
  Samples("kdp_resource_attack_incoming_traffic_bps")
  \o Samples("kdp_resource_attack_incoming_traffic_pps")
  \o Samples("kdp_resource_attack_http_rate")

\* C15 as stated: after the resource-list step received a well-formed
\* response, the resolved resource_id is the id of a record named
\* resource_name when the response holds one, and is absent when it holds
\* none.
C15_Resolution ==
  (Ran(ResourceList) /\ WellFormed(got[ResourceList])) =>
    IF Matches # {}
    THEN /\ resource_id # None
         /\ \E i \in Matches : got[ResourceList].recs[i].id = Val(resource_id)
    ELSE resource_id = None

\* C16 as stated: when the resource-list response holds several records named
\* resource_name, the resolved resource_id is the id of the first of them.
C16_FirstMatchWins ==
  (Ran(ResourceList) /\ WellFormed(got[ResourceList])
   /\ Cardinality(Matches) >= 2) =>
    /\ resource_id # None
    /\ Val(resource_id) =
         got[ResourceList].recs[CHOOSE i \in Matches :
                                  \A j \in Matches : i <= j].id

\* C17 as stated: in a pass whose resource-list response holds no record
\* named resource_name, the resolved id is absent, no resource-scoped call is
\* sent, no attack sample is emitted, and collect does not raise.
C17_NoMatchNoScopedCalls ==
  (Ran(ResourceList) /\ WellFormed(got[ResourceList]) /\ Matches = {}) =>
    /\ resource_id = None
    /\ \A op \in ScopedOps : sent[op] = None
    /\ AttackSamples = <<>>
    /\ pc # "raised"

\* The records of the sequence that satisfy Keep, in order.
Only(recs, Keep(_)) == SelectSeq(recs, Keep)

\* C18: the attack samples are those of the records of the resolved resource.
\* In each of the three attack families the samples belong, in response
\* order, to records whose resource_id is the resolved resource_id, never to
\* a record of another resource; and when the step did not fail, every such
\* record has its sample in each family.
C18_AttackFiltering ==
  (Ran(AttackList) /\ got[AttackList].kind = "data") =>
    LET OfResource(i) == resource_id # None /\ i.resource_id = Val(resource_id)
        own == Only(got[AttackList].recs, OfResource)
        ids == [j \in 1..Len(own) |-> Str(own[j].attack_id)]
    IN \A n \in 1..Len(Families(AttackList)) :
         LET sm == Samples(Families(AttackList)[n])
             emitted == [j \in 1..Len(sm) |-> sm[j].labels[2]]
         IN /\ IsPrefix(emitted, ids)
            /\ AttackList \notin errs => emitted = ids

\* C18 witness: the response held an attack on the resolved resource and one
\* on another resource, and only the first has samples.
C18_Witness ==
  /\ PassOver
  /\ resource_id = Some(1)
  /\ got[AttackList] = Data(<<AttackRec(7, 1, {}), AttackRec(8, 2, {})>>)
  /\ AttackList \notin errs
  /\ Len(Samples("kdp_resource_attack_http_rate")) = 1
  /\ Samples("kdp_resource_attack_incoming_traffic_bps")[1].labels[2] = "7"

\* The lists the classifier was handed are lists of complete records.
ClassifierInputOk ==
  /\ Ran(Classify)
  /\ plist # None /\ pdata # None
  /\ \A i \in 1..Len(Val(plist)) : Val(plist)[i].absent = {}
  /\ \A i \in 1..Len(Val(pdata)) : Val(pdata)[i].absent = {}

\* The (definition, data point) pairs in the order the classifier visits them.
Pairs ==
  LET L == Val(plist)
      D == Val(pdata)
  IN [n \in 1..(Len(L) * Len(D)) |->
        [l |-> L[((n - 1) \div Len(D)) + 1], d |-> D[((n - 1) % Len(D)) + 1]]]

\* C19: for the pairs that join on the id, carry a value and are of a known
\* kind, each of that kind's five families holds one sample per pair, in
\* visiting order, labelled (resource_name, dirty | clean | N/A by type 0 |
\* 2 | other) and carrying the definition's direction and the point's
\* threshold, mult1, mult2 and value; nothing else is in any family.
C19_ClassifierJoin ==
  ClassifierInputOk =>
    \A k \in 1..Len(KindTable) :
      LET Hit(p) == /\ p.l.id = p.d.unit_check_id
                    /\ p.d.value # None
                    /\ p.l.short_name = KindTable[k][1]
          hits == Only(Pairs, Hit)
          Label(p) == <<resource_name,
                        IF p.d.type = 0 THEN "dirty"
                        ELSE IF p.d.type = 2 THEN "clean" ELSE "N/A">>
          Fam(sfx) == Samples(KindTable[k][2] \o sfx)
      IN /\ Fam("_direction") = [n \in 1..Len(hits) |->
              [labels |-> Label(hits[n]), value |-> hits[n].l.direction]]
         /\ Fam("_threshold") = [n \in 1..Len(hits) |->
              [labels |-> Label(hits[n]), value |-> hits[n].d.threshold]]
         /\ Fam("_mult1") = [n \in 1..Len(hits) |->
              [labels |-> Label(hits[n]), value |-> hits[n].d.mult1]]
         /\ Fam("_mult2") = [n \in 1..Len(hits) |->
              [labels |-> Label(hits[n]), value |-> hits[n].d.mult2]]
         /\ Fam("") = [n \in 1..Len(hits) |->
              [labels |-> Label(hits[n]), value |-> hits[n].d.value]]

\* C19 witness: a dirty and a clean point of one SYN packets definition gave
\* two samples in each SYN packets family and none in another kind's.
C19_Witness ==
  /\ PassOver
  /\ ClassifierInputOk
  /\ Len(Samples("kdp_syn_packets_direction")) = 2
  /\ Samples("kdp_syn_packets")[1] =
       [labels |-> <<resource_name, "dirty">>, value |-> Some(12)]
  /\ Samples("kdp_syn_packets")[2] =
       [labels |-> <<resource_name, "clean">>, value |-> Some(3)]
  /\ Samples("kdp_syn_rating") = <<>>

\* C20: data points whose value is null produce no sample: every classifier
\* family holds exactly what the classifier produces from the same
\* definitions and the data with the null-valued points removed.
C20_NullValueSkipped ==
  ClassifierInputOk =>
    LET NotNull(d) == d.value # None
        fresh == CreateFamilies([m |-> <<>>, a |-> [f \in FamilyNames |-> 0]],
                                Families(Classify), passNo)
        st == ClassifierTry(fresh, plist, Some(Only(Val(pdata), NotNull)))
    IN \A n \in 1..Len(Families(Classify)) :
         Samples(Families(Classify)[n]) = st.m[n].samples

\* C20 witness: the data held a null-valued point whose unit_check_id matches
\* a definition, next to a point with a value, and only the latter has a
\* sample.
C20_Witness ==
  /\ PassOver
  /\ ClassifierInputOk
  /\ \E i \in 1..Len(Val(pdata)) :
       /\ Val(pdata)[i].value = None
       /\ \E j \in 1..Len(Val(plist)) :
            Val(plist)[j].id = Val(pdata)[i].unit_check_id
  /\ Len(Samples("kdp_syn_packets")) = 1
  /\ Samples("kdp_syn_packets")[1].labels = <<resource_name, "N/A">>

\* The pairs, by position in Pairs, that join on the id and carry a value.
JoinedPairs ==
  {n \in 1..Len(Pairs) : /\ Pairs[n].l.id = Pairs[n].d.unit_check_id
                          /\ Pairs[n].d.value # None}

\* The number of samples the current pass holds in the classifier families.
RECURSIVE SamplesUpTo(_)
SamplesUpTo(n) ==
  IF n = 0 THEN 0
  ELSE Len(Samples(ClassifierFamilies[n])) + SamplesUpTo(n - 1)

ClassifierSamples == SamplesUpTo(Len(ClassifierFamilies))

\* C21: a definition with an unrecognized short_name produces no sample and
\* no error, whatever data points join it, and the definitions after it are
\* still processed: the classifier logs no failure, and the families hold
\* five samples for each joined pair of a known kind and nothing more.
C21_UnknownKindDropped ==
  (ClassifierInputOk
   /\ \E i \in 1..Len(Val(plist)) : Val(plist)[i].short_name \notin KnownNames)
  =>
    /\ Classify \notin errs
    /\ ClassifierSamples =
         5 * Cardinality({n \in JoinedPairs :
                            Pairs[n].l.short_name \in KnownNames})

\* C21 witness: an unrecognized definition joined a data point with a value
\* and gave nothing, and the known definition after it has its samples.
C21_Witness ==
  /\ PassOver
  /\ ClassifierInputOk
  /\ Val(plist)[1].short_name = "Unknown kind"
  /\ \E n \in JoinedPairs : Pairs[n].l.short_name = "Unknown kind"
  /\ Classify \notin errs
  /\ Len(Samples("kdp_syn_packets")) = 1
  /\ ClassifierSamples = 5

\* C22 as stated: a data point is emitted only when its unit_check_id matches
\* exactly one definition id, and no data point gives more than one group
\* of five samples: the value families together hold at most one sample per
\* data point that has a value and matches exactly one definition.
C22_JoinOnUniqueId ==
  ClassifierInputOk =>
    LET L == Val(plist)
        D == Val(pdata)
        Unique == {i \in 1..Len(D) :
                     /\ D[i].value # None
                     /\ Cardinality({j \in 1..Len(L) :
                                       L[j].id = D[i].unit_check_id}) = 1}
    IN ClassifierSamples <= 5 * Cardinality(Unique)

\* C24: every authenticated operation is invoked with the ClientAuth that
\* an authenticate call of the same step returned for that operation's
\* name; no ClientAuth is passed to two calls; and a Collector on which
\* authenticate cannot build the ClientAuth (it has no SOAP client) sends no
\* authenticated operation.
C24_TokenPerCall ==
  /\ \A op \in AuthenticatedOps :
       sent[op] # None =>
         /\ Val(sent[op]).auth # None
         /\ Val(Val(sent[op]).auth).method = op
         /\ Val(Val(sent[op]).auth).pass = passNo
  /\ \A o1, o2 \in AuthenticatedOps :
       (o1 # o2 /\ sent[o1] # None /\ sent[o2] # None) =>
         Val(sent[o1]).auth # Val(sent[o2]).auth
  /\ ~HasClient => \A op \in AuthenticatedOps : sent[op] = None

\* C24 witness: a pass invoked all nine authenticated operations, each with a
\* ClientAuth of its own.
C24_Witness ==
  /\ PassOver
  /\ \A op \in AuthenticatedOps : sent[op] # None
  /\ Cardinality({Val(sent[op]).auth : op \in AuthenticatedOps}) = 9
  /\ Val(Val(sent[AttackList]).auth).method = "attack_active_list"

\* The names of the families of a list, in order.
Names(fams) == [i \in 1..Len(fams) |-> fams[i].name]

\* A step of a pass leaves every family that existed before it as it was,
\* and the families it appends are families of the step method it runs; the
\* first pass, when it comes to yield, holds the families of the catalog and
\* yields them.
OwnFamiliesOnly ==
  /\ (pc = "yield" /\ passNo = 1) =>
       /\ Names(metrics) = Catalog
       /\ yielded' = metrics
  /\ Len(metrics') >= Len(metrics)
  /\ \A i \in 1..Len(metrics) : metrics'[i] = metrics[i]
  /\ \A i \in (Len(metrics) + 1)..Len(metrics') :
       \E j \in 1..Len(Families(pc)) : metrics'[i].name = Families(pc)[j]

\* C25: the first pass on a Collector yields the 59 families of the catalog
\* (API version, client resource, the 50 classifier families, geo ratio,
\* new-IP-blocks, 2 anomaly, 3 attack) whatever calls succeeded or failed;
\* and a step, failed or not, leaves every family that existed before it
\* as it was and adds samples only to the families it created itself.
C25_FixedFamilies ==
  [][OwnFamiliesOnly]_vars

\* C25 witness: the first pass yielded the 59 families although the
\* resource list call failed, with the API version sample in place.
C25_Witness ==
  /\ passNo = 1
  /\ pc = "idle"
  /\ Names(yielded) = Catalog
  /\ got[ResourceList].kind = "fault"
  /\ got[ApiVersion].kind = "data"
  /\ Len(yielded[1].samples) = 1
  /\ yielded[2].samples = <<>>

\* C26 as stated: for every attack record of the resolved resource, the bps
\* family holds max_point_value_bps, the pps family max_point_value_pps and
\* the HTTP rate family max_point_value_rps, each labelled (resource_name,
\* attack_id, attack_type).
C26_AttackFieldPerFamily ==
  (Ran(AttackList) /\ WellFormed(got[AttackList]) /\ AttackList \notin errs) =>
    LET OfResource(i) == resource_id # None /\ i.resource_id = Val(resource_id)
        own == Only(got[AttackList].recs, OfResource)
        Label(i) == <<resource_name, Str(i.attack_id), i.attack_type>>
    IN /\ Samples("kdp_resource_attack_incoming_traffic_bps") =
            [n \in 1..Len(own) |->
               [labels |-> Label(own[n]), value |-> own[n].max_point_value_bps]]
       /\ Samples("kdp_resource_attack_incoming_traffic_pps") =
            [n \in 1..Len(own) |->
               [labels |-> Label(own[n]), value |-> own[n].max_point_value_pps]]
       /\ Samples("kdp_resource_attack_http_rate") =
            [n \in 1..Len(own) |->
               [labels |-> Label(own[n]), value |-> own[n].max_point_value_rps]]

\* C23 as stated: with a loaded configuration, every invocation of handle in
\* a process, the first and each later one, returns the text of its scrape;
\* none raises.
C23_HandleRepeatable ==
  HasResourceName =>
    \A n \in 1..Len(proc.results) : proc.results[n].kind = "text"

====
